---------------------------- MODULE Spec2Model ----------------------------
(***************************************************************************)
(* A model of DNANDU.py (nucleotide distribution uniformity, NDU): the     *)
(* congruence matrix of a DNA sequence for a periodicity p, the two scores *)
(* built on it (NDU and the perfect level PR), the searches over ranges of *)
(* periodicities, the consensus repeat pattern and the sliding windows.    *)
(*                                                                         *)
(* Every function of the module is pure, so the state is one call: the     *)
(* sequence, the function called with its arguments, and what it returned  *)
(* or raised.  The code is Python 3 (/ is the true division).  Scores are  *)
(* floats in the code; here they are exact rationals                       *)
(* <<numerator, denominator>> in lowest terms, so two scores compare as    *)
(* their exact values do, and <<0, 0>> stands for the IEEE not-a-number    *)
(* that numpy returns, with a warning, for 0/0.                            *)
(* print(ps) in getLargests writes to stdout only and is left out.         *)
(* The sequences of the model are shorter than 200 symbols, so the cap of  *)
(* the default periodicity limit at PeriodCap is never the smaller bound.  *)
(***************************************************************************)
EXTENDS Integers, Sequences, FiniteSets

VARIABLES seq, call, result

vars == <<seq, call, result>>

(***************************************************************************)
(* Bounds of the model.                                                    *)
(***************************************************************************)
MaxLen == 4        \* longest sequence drawn over the whole alphabet
MaxUnit == 4       \* longest repeat unit of the exact repeats drawn
MaxCopies == 3     \* most copies of a unit in an exact repeat
MaxPeriod == 4     \* largest periodicity passed as an argument
MaxTop == 4        \* largest n passed to the top-n searches
MaxWindow == 4     \* largest explicit window size W
PrefixLen == 20    \* symbols taken of the test script's sequence

\* The cap of the periodicity limit when the caller gives none.
PeriodCap == 100

Alphabet == {"G", "C", "A", "T", "N"}
Bases == {"G", "C", "A", "T"}

(***************************************************************************)
(* Python values: None or a value, a returned value or a raised exception. *)
(***************************************************************************)
None == <<>>
Some(x) == <<x>>

Ok(v) == [tag |-> "ok", val |-> v]
Raise(e) == [tag |-> "raise", val |-> e]

(***************************************************************************)
(* Exact rationals for the float arithmetic.                               *)
(***************************************************************************)
Abs(x) == IF x < 0 THEN -x ELSE x

RECURSIVE GCD(_, _)
GCD(a, b) == IF b = 0 THEN a ELSE GCD(b, a % b)

Norm(x) ==
  LET g == GCD(Abs(x[1]), x[2])
  IN  IF g = 0 THEN <<0, 0>> ELSE <<x[1] \div g, x[2] \div g>>

NaN == <<0, 0>>
IsNaN(x) == x[2] = 0
RInt(k) == <<k, 1>>
\* Sums, differences and products are left unreduced; a score is reduced to
\* lowest terms by the division that ends its computation.
RAdd(x, y) ==
  IF x[2] = y[2] THEN <<x[1] + y[1], x[2]>>
  ELSE <<x[1] * y[2] + y[1] * x[2], x[2] * y[2]>>
RSub(x, y) ==
  IF x[2] = y[2] THEN <<x[1] - y[1], x[2]>>
  ELSE <<x[1] * y[2] - y[1] * x[2], x[2] * y[2]>>
RMul(x, y) == <<x[1] * y[1], x[2] * y[2]>>
\* x / k for an integer k > 0
RDivInt(x, k) == Norm(<<x[1], x[2] * k>>)
RLess(x, y) == x[1] * y[2] < y[1] * x[2]
RLeq(x, y) == x[1] * y[2] <= y[1] * x[2]

(***************************************************************************)
(* Python list helpers: indices are 0-based in the code, lists are TLA+    *)
(* sequences (1-based) here.                                               *)
(*                                                                         *)
(* A for loop is a recursive operator over the loop variable and the       *)
(* values the loop updates.  Where a loop can run long, the next iteration *)
(* is written CHOOSE x \in {Loop(.., v) : v \in {e}} : TRUE, which is      *)
(* Loop(.., e) with e evaluated once, before the iteration.                *)
(***************************************************************************)
\* max(xs): the first maximal element; ValueError on an empty list.
RECURSIVE PyMaxLoop(_, _, _)
PyMaxLoop(xs, i, best) ==
  IF i > Len(xs) THEN best
  ELSE PyMaxLoop(xs, i + 1, IF RLess(best, xs[i]) THEN xs[i] ELSE best)

PyMax(xs) == PyMaxLoop(xs, 2, xs[1])

\* xs.index(a): the 0-based index of the first element equal to a.
RECURSIVE PyIndexLoop(_, _, _)
PyIndexLoop(xs, a, i) ==
  IF xs[i] = a THEN i - 1 ELSE PyIndexLoop(xs, a, i + 1)

PyIndex(xs, a) == PyIndexLoop(xs, a, 1)

\* xs[start:stop] with Python's treatment of negative and overlong bounds.
PyClamp(k, l) ==
  LET j == IF k < 0 THEN k + l ELSE k
  IN  IF j < 0 THEN 0 ELSE IF j > l THEN l ELSE j

PySlice(xs, start, stop) ==
  LET a == PyClamp(start, Len(xs))
      b == PyClamp(stop, Len(xs))
  IN  IF a >= b THEN <<>> ELSE SubSeq(xs, a + 1, b)

\* sorted(xs): ascending.
RECURSIVE Insert(_, _)
Insert(sorted, x) ==
  IF sorted = <<>> THEN <<x>>
  ELSE IF RLess(x, Head(sorted)) THEN <<x>> \o sorted
  ELSE <<Head(sorted)>> \o Insert(Tail(sorted), x)

RECURSIVE PySortedLoop(_, _, _)
PySortedLoop(xs, i, acc) ==
  IF i > Len(xs) THEN acc ELSE PySortedLoop(xs, i + 1, Insert(acc, xs[i]))

PySorted(xs) == PySortedLoop(xs, 1, <<>>)

(***************************************************************************)
(* getCongruenceMatrix(seq, p): CM[r][c] counts the symbols of row r at    *)
(* the positions i with i % p = c.  Rows: G, C, A, everything else.        *)
(* np.zeros raises ValueError for a negative dimension; i % 0 raises       *)
(* ZeroDivisionError at the first position.                                *)
(***************************************************************************)
Row(ch) ==
  IF ch = "G" THEN 0
  ELSE IF ch = "C" THEN 1
  ELSE IF ch = "A" THEN 2
  ELSE 3

Zeros(p) == [r \in 0..3 |-> [c \in 0..(p - 1) |-> 0]]

RECURSIVE CMLoop(_, _, _, _)
CMLoop(s, p, i, CM) ==
  IF i >= Len(s) THEN CM
  ELSE LET m == i % p
           r == Row(s[i + 1])
       IN  CHOOSE x \in {CMLoop(s, p, i + 1, v) :
                           v \in {[CM EXCEPT ![r][m] = @ + 1]}} : TRUE

\* Variant: the loop starts at the second symbol, range(1, n).
getCongruenceMatrix_SkipFirst(s, p) ==
  IF p < 0 THEN Raise("ValueError")
  ELSE IF p = 0 /\ Len(s) > 1 THEN Raise("ZeroDivisionError")
  ELSE Ok(CMLoop(s, p, 1, Zeros(p)))

\* Variant: the call is rejected unless 1 <= p <= len(seq).
getCongruenceMatrix_Validating(s, p) ==
  IF p < 1 \/ p > Len(s) THEN Raise("ValueError")
  ELSE Ok(CMLoop(s, p, 0, Zeros(p)))

getCongruenceMatrix(s, p) ==
  IF p < 0 THEN Raise("ValueError")
  ELSE IF p = 0 /\ Len(s) > 0 THEN Raise("ZeroDivisionError")
  ELSE Ok(CMLoop(s, p, 0, Zeros(p)))

(***************************************************************************)
(* getPerfectLevelSeq(seq, p): the sum of the column maxima over len(seq). *)
(***************************************************************************)
Max2(a, b) == IF a >= b THEN a ELSE b

\* Variant: the maximum over the rows G, C, A only.
ColMax_NoOther(CM, c) == Max2(Max2(CM[0][c], CM[1][c]), CM[2][c])

\* np.amax(CM, axis=0)[c]
ColMax(CM, c) == Max2(Max2(CM[0][c], CM[1][c]), Max2(CM[2][c], CM[3][c]))

RECURSIVE SumLoop(_, _, _, _)
SumLoop(CM, p, c, acc) ==
  IF c >= p THEN acc
  ELSE CHOOSE x \in {SumLoop(CM, p, c + 1, v) : v \in {acc + ColMax(CM, c)}} : TRUE

getPerfectLevelSeq(s, p) ==
  LET lenS == Len(s)
      CM == getCongruenceMatrix(s, p)
  IN  IF CM.tag = "raise" THEN CM
      ELSE LET sumMaxCols == SumLoop(CM.val, p, 0, 0)
           IN  IF lenS = 0
               THEN IF p = 0 THEN Raise("ZeroDivisionError") ELSE Ok(NaN)
               ELSE Ok(Norm(<<sumMaxCols, lenS>>))

(***************************************************************************)
(* getNDUSeq(seq, p): the sum over the cells of (f[i,j] - n/(4p))^2,       *)
(* over n.                                                                 *)
(***************************************************************************)
RECURSIVE NDUCells(_, _, _, _, _, _)
NDUCells(f, p, avg, i, j, DU) ==
  IF i >= 4 THEN DU
  ELSE IF j >= p THEN NDUCells(f, p, avg, i + 1, 0, DU)
  ELSE LET diff == RSub(RInt(f[i][j]), avg)
       IN  CHOOSE x \in {NDUCells(f, p, avg, i, j + 1, v) :
                           v \in {RAdd(DU, RMul(diff, diff))}} : TRUE

getNDUSeq(s, p) ==
  LET n == Len(s)
      f == getCongruenceMatrix(s, p)
  IN  IF f.tag = "raise" THEN f
      ELSE IF p = 0 THEN Raise("ZeroDivisionError")
      ELSE IF n = 0 THEN Ok(NaN)
      ELSE LET avg == Norm(<<n, 4 * p>>)
               DU == NDUCells(f.val, p, avg, 0, 0, RInt(0))
           IN  Ok(RDivInt(DU, n))

(***************************************************************************)
(* getNDUSeqEquation(seq, p): (sum of f[i,j]^2 - n^2/(4p)) / n.            *)
(***************************************************************************)
RECURSIVE SquareCells(_, _, _, _, _)
SquareCells(f, p, i, j, sumV) ==
  IF i >= 4 THEN sumV
  ELSE IF j >= p THEN SquareCells(f, p, i + 1, 0, sumV)
  ELSE LET e == f[i][j]
       IN  CHOOSE x \in {SquareCells(f, p, i, j + 1, v) :
                           v \in {sumV + e * e}} : TRUE

\* Variant: n/(4p) subtracted in place of n*n/(4p).
getNDUSeqEquation_NoSquare(s, p) ==
  LET n == Len(s)
      f == getCongruenceMatrix(s, p)
  IN  IF f.tag = "raise" THEN f
      ELSE IF p = 0 THEN Raise("ZeroDivisionError")
      ELSE IF n = 0 THEN Ok(NaN)
      ELSE LET sumV == SquareCells(f.val, p, 0, 0, 0)
               DU == RSub(RInt(sumV), Norm(<<n, 4 * p>>))
           IN  Ok(RDivInt(DU, n))

getNDUSeqEquation(s, p) ==
  LET n == Len(s)
      f == getCongruenceMatrix(s, p)
  IN  IF f.tag = "raise" THEN f
      ELSE IF p = 0 THEN Raise("ZeroDivisionError")
      ELSE IF n = 0 THEN Ok(NaN)
      ELSE LET sumV == SquareCells(f.val, p, 0, 0, 0)
               DU == RSub(RInt(sumV), Norm(<<n * n, 4 * p>>))
           IN  Ok(RDivInt(DU, n))

(***************************************************************************)
(* getMaxPRSeq(seq): the loop runs p over range(2, mp) but scores the      *)
(* sequence at mp each time; max of an empty list raises ValueError.       *)
(***************************************************************************)
DefaultLimit(lenS) ==
  LET mp == lenS \div 2
  IN  IF mp > PeriodCap THEN PeriodCap ELSE mp

RECURSIVE MaxPRLoop(_, _, _, _)
MaxPRLoop(s, mp, p, prs) ==
  IF p >= mp THEN prs
  ELSE CHOOSE x \in {MaxPRLoop(s, mp, p + 1, v) :
                      v \in {Append(prs, getPerfectLevelSeq(s, mp).val)}} : TRUE

getMaxPRSeq(s) ==
  LET lenS == Len(s)
      mp == DefaultLimit(lenS)
      prs == MaxPRLoop(s, mp, 2, <<>>)
  IN  IF prs = <<>> THEN Raise("ValueError")
      ELSE LET maxpr == PyMax(prs)
               idx == PyIndex(prs, maxpr)
               period == idx + 2
           IN  Ok([period |-> period, score |-> maxpr])

(***************************************************************************)
(* getMaxNDUSeq(seq, mp=None): NDUs starts as [0] for periodicity 1, then  *)
(* the NDU of each p of range(2, mp).                                      *)
(***************************************************************************)
RECURSIVE NDULimitLoop(_, _, _, _)
NDULimitLoop(s, mp, p, NDUs) ==
  IF p >= mp THEN NDUs
  ELSE CHOOSE x \in {NDULimitLoop(s, mp, p + 1, v) :
                      v \in {Append(NDUs, getNDUSeq(s, p).val)}} : TRUE

getMaxNDUSeq(s, mpArg) ==
  LET lenS == Len(s)
      mp == IF mpArg = None THEN DefaultLimit(lenS) ELSE mpArg[1]
      NDUs == NDULimitLoop(s, mp, 2, <<RInt(0)>>)
      maxNDU == PyMax(NDUs)
      idx == PyIndex(NDUs, maxNDU)
      periodicity == idx + 1
  IN  Ok([period |-> periodicity, score |-> maxNDU])

(***************************************************************************)
(* getNDURangeSeq(seq, p1, p2): range(p1, p2 + 1).                         *)
(* getPRRangeSeq(seq, p1, p2) and getMaxPerfect(seq, p1, p2):              *)
(* range(p1, p2).                                                          *)
(***************************************************************************)
RECURSIVE NDURangeLoop(_, _, _, _)
NDURangeLoop(s, p, stop, NDUs) ==
  IF p >= stop THEN NDUs
  ELSE NDURangeLoop(s, p + 1, stop, Append(NDUs, getNDUSeq(s, p).val))

getNDURangeSeq(s, p1, p2) == NDURangeLoop(s, p1, p2 + 1, <<>>)

RECURSIVE PRRangeLoop(_, _, _, _)
PRRangeLoop(s, period, stop, prRange) ==
  IF period >= stop THEN prRange
  ELSE PRRangeLoop(s, period + 1, stop,
                   Append(prRange, getPerfectLevelSeq(s, period).val))

getPRRangeSeq(s, p1, p2) == PRRangeLoop(s, p1, p2, <<>>)

getMaxPerfect(s, p1, p2) ==
  LET prRange == PRRangeLoop(s, p1, p2, <<>>)
  IN  IF prRange = <<>> THEN Raise("ValueError")
      ELSE LET maxPR == PyMax(prRange)
               maxPRIdx == PyIndex(prRange, maxPR)
               maxPeriod == maxPRIdx + p1
           IN  Ok([period |-> maxPeriod, score |-> maxPR])

(***************************************************************************)
(* getLargests(ps, n): the slice pt[l-3:l] of the sorted scores, then the  *)
(* index in ps of each of its first n values; ps_n[i] raises IndexError    *)
(* past the end of the slice.                                              *)
(***************************************************************************)
RECURSIVE LargestsLoop(_, _, _, _, _)
LargestsLoop(ps, ps_n, n, i, ps_idx) ==
  IF i >= n THEN Ok([values |-> ps_n, idx |-> ps_idx])
  ELSE IF i >= Len(ps_n) THEN Raise("IndexError")
  ELSE LET a == ps_n[i + 1]
           idx == PyIndex(ps, a)
       IN  LargestsLoop(ps, ps_n, n, i + 1, Append(ps_idx, idx))

getLargests(ps, n) ==
  LET l == Len(ps)
      pt == PySorted(ps)
      ps_n == PySlice(pt, l - 3, l)
  IN  LargestsLoop(ps, ps_n, n, 0, <<>>)

\* [x + p1 for x in maxIdx], then maxPeriods[n-1]
TopPeriods(largests, p1, n) ==
  IF largests.tag = "raise" THEN largests
  ELSE LET maxIdx == largests.val.idx
           maxPeriods == [k \in 1..Len(maxIdx) |-> maxIdx[k] + p1]
       IN  IF n < 1 \/ n > Len(maxPeriods) THEN Raise("IndexError")
           ELSE Ok([maxPeriods |-> maxPeriods, maxPeriod |-> maxPeriods[n]])

getTopMaxPeriods(s, p1, p2, n) ==
  LET psRange == getNDURangeSeq(s, p1, p2)
  IN  TopPeriods(getLargests(psRange, n), p1, n)

getTopMaxPerfects(s, p1, p2, n) ==
  LET prRange == getPRRangeSeq(s, p1, p2)
  IN  TopPeriods(getLargests(prRange, n), p1, n)

(***************************************************************************)
(* getRepeatSeq(seq, p): per column the first row with the largest count   *)
(* (argmax), written G, C, A, T.                                           *)
(***************************************************************************)
ArgMax(CM, c) ==
  LET m == ColMax(CM, c)
  IN  IF CM[0][c] = m THEN 0
      ELSE IF CM[1][c] = m THEN 1
      ELSE IF CM[2][c] = m THEN 2
      ELSE 3

\* Variant: rows 1 and 2 written A and C.
RECURSIVE RepeatLoop_Swapped(_, _, _, _)
RepeatLoop_Swapped(CM, p, i, refSeq) ==
  IF i >= p THEN refSeq
  ELSE LET idx == ArgMax(CM, i)
           ch == IF idx = 0 THEN "G"
                 ELSE IF idx = 1 THEN "A"
                 ELSE IF idx = 2 THEN "C"
                 ELSE "T"
       IN  RepeatLoop_Swapped(CM, p, i + 1, Append(refSeq, ch))

RECURSIVE RepeatLoop(_, _, _, _)
RepeatLoop(CM, p, i, refSeq) ==
  IF i >= p THEN refSeq
  ELSE LET idx == ArgMax(CM, i)
           ch == IF idx = 0 THEN "G"
                 ELSE IF idx = 1 THEN "C"
                 ELSE IF idx = 2 THEN "A"
                 ELSE "T"
       IN  RepeatLoop(CM, p, i + 1, Append(refSeq, ch))

getRepeatSeq(s, p) ==
  LET CM == getCongruenceMatrix(s, p)
  IN  IF CM.tag = "raise" THEN CM
      ELSE Ok(RepeatLoop(CM.val, p, 0, <<>>))

(***************************************************************************)
(* getNDUWalkSeq(seq, p): the NDU of each prefix seq[0:i], i in            *)
(* range(1, lenS).                                                         *)
(***************************************************************************)
RECURSIVE WalkLoop(_, _, _, _)
WalkLoop(s, p, i, nduWalk) ==
  IF i >= Len(s) THEN nduWalk
  ELSE LET seqT == PySlice(s, 0, i)
       IN  CHOOSE x \in {WalkLoop(s, p, i + 1, v) :
                           v \in {Append(nduWalk, getNDUSeq(seqT, p).val)}} : TRUE

getNDUWalkSeq(s, p) == WalkLoop(s, p, 1, <<>>)

(***************************************************************************)
(* getNDUWindowSeq(seq, p, W=None): W defaults to 5*p; the NDU of each     *)
(* window seq[i:i+W], i in range(0, lenS - W + 1).                         *)
(***************************************************************************)
RECURSIVE WindowLoop(_, _, _, _, _, _)
WindowLoop(s, p, W, e, i, nduWin) ==
  IF i >= e THEN nduWin
  ELSE LET t == i + W
           seqT == PySlice(s, i, t)
       IN  CHOOSE x \in {WindowLoop(s, p, W, e, i + 1, v) :
                           v \in {Append(nduWin, getNDUSeq(seqT, p).val)}} : TRUE

\* Variant: e = lenS - W, the last window left out.
getNDUWindowSeq_ShortEnd(s, p, WArg) ==
  LET lenS == Len(s)
      W == IF WArg = None THEN 5 * p ELSE WArg[1]
      e == lenS - W
  IN  WindowLoop(s, p, W, e, 0, <<>>)

getNDUWindowSeq(s, p, WArg) ==
  LET lenS == Len(s)
      W == IF WArg = None THEN 5 * p ELSE WArg[1]
      e == lenS - W + 1
  IN  WindowLoop(s, p, W, e, 0, <<>>)

(***************************************************************************)
(* The test script's steps 2 to 4: the periodicity of the maximum NDU,     *)
(* then the consensus repeat pattern at that periodicity.                  *)
(***************************************************************************)
ConsensusOfMax(s) ==
  LET best == getMaxNDUSeq(s, None)
      period == best.val.period
      seqR == getRepeatSeq(s, period)
  IN  IF seqR.tag = "raise" THEN seqR
      ELSE Ok([period |-> period, score |-> best.val.score, seqR |-> seqR.val])

(***************************************************************************)
(* The inputs: every sequence over the alphabet up to MaxLen symbols (the  *)
(* empty one included) and the start of the test script's sequence; for    *)
(* the repeats, the exact repeats of the units over G, C, A, T up to       *)
(* MaxUnit symbols, 2 to MaxCopies copies.                                 *)
(***************************************************************************)
SeqsOf(S, lo, hi) == UNION {[1..m -> S] : m \in lo..hi}

Repeat(u, k) == [i \in 1..(Len(u) * k) |-> u[((i - 1) % Len(u)) + 1]]

Repeats == {Repeat(u, k) : u \in SeqsOf(Bases, 1, MaxUnit), k \in 2..MaxCopies}

\* The sequence of the test script (80 symbols, imperfect 5-bp repeats).
TestSeq ==
  <<"A", "T", "T", "G", "A", "A", "C", "C", "C", "G", "G", "T", "G", "C", "G", "A">> \o
  <<"A", "C", "A", "C", "A", "T", "C", "T", "C", "C", "A", "C", "T", "C", "A", "T">> \o
  <<"C", "G", "A", "A", "G", "C", "G", "C", "G", "T", "C", "G", "G", "A", "T", "C">> \o
  <<"A", "G", "G", "T", "C", "A", "G", "A", "T", "C", "G", "G", "A", "T", "C", "T">> \o
  <<"G", "A", "T", "C", "G", "G", "A", "A", "C", "G", "G", "C", "T", "G", "C", "G">>

\* Its first PrefixLen symbols.
TestPrefix == SubSeq(TestSeq, 1, PrefixLen)

Inputs == SeqsOf(Alphabet, 0, MaxLen) \cup {TestPrefix}

Periods == 1..MaxPeriod
AnyPeriods == (-1)..MaxPeriod
Ranges == {r \in Periods \X Periods : r[1] <= r[2]}
Windows == {None} \cup {Some(w) : w \in 1..MaxWindow}
Limits == {None} \cup {Some(m) : m \in Periods}

NoCall == [fn |-> "none", p |-> 0, p1 |-> 0, p2 |-> 0, n |-> 0, opt |-> None]

Init ==
  /\ seq \in Inputs
  /\ call = NoCall
  /\ result = Ok(<<>>)

Idle == call.fn = "none"

Return(c, r) ==
  /\ call' = c
  /\ result' = r
  /\ UNCHANGED seq

CallCongruenceMatrix ==
  /\ Idle
  /\ \E p \in AnyPeriods :
       Return([NoCall EXCEPT !.fn = "getCongruenceMatrix", !.p = p],
              getCongruenceMatrix(seq, p))

CallPerfectLevelSeq ==
  /\ Idle
  /\ \E p \in AnyPeriods :
       Return([NoCall EXCEPT !.fn = "getPerfectLevelSeq", !.p = p],
              getPerfectLevelSeq(seq, p))

CallNDUSeq ==
  /\ Idle
  /\ \E p \in AnyPeriods :
       Return([NoCall EXCEPT !.fn = "getNDUSeq", !.p = p], getNDUSeq(seq, p))

CallNDUSeqEquation ==
  /\ Idle
  /\ \E p \in AnyPeriods :
       Return([NoCall EXCEPT !.fn = "getNDUSeqEquation", !.p = p],
              getNDUSeqEquation(seq, p))

\* The searches are called on non-empty sequences with periodicities >= 1,
\* the top-n searches with n up to the number of periodicities of the range.
CallMaxPRSeq ==
  /\ Idle
  /\ Len(seq) >= 1
  /\ Return([NoCall EXCEPT !.fn = "getMaxPRSeq"], getMaxPRSeq(seq))

CallMaxNDUSeq ==
  /\ Idle
  /\ Len(seq) >= 1
  /\ \E mp \in Limits :
       Return([NoCall EXCEPT !.fn = "getMaxNDUSeq", !.opt = mp],
              getMaxNDUSeq(seq, mp))

CallNDURangeSeq ==
  /\ Idle
  /\ Len(seq) >= 1
  /\ \E r \in Ranges :
       Return([NoCall EXCEPT !.fn = "getNDURangeSeq", !.p1 = r[1], !.p2 = r[2]],
              Ok(getNDURangeSeq(seq, r[1], r[2])))

CallPRRangeSeq ==
  /\ Idle
  /\ Len(seq) >= 1
  /\ \E r \in Ranges :
       Return([NoCall EXCEPT !.fn = "getPRRangeSeq", !.p1 = r[1], !.p2 = r[2]],
              Ok(getPRRangeSeq(seq, r[1], r[2])))

CallMaxPerfect ==
  /\ Idle
  /\ Len(seq) >= 1
  /\ \E r \in Ranges :
       Return([NoCall EXCEPT !.fn = "getMaxPerfect", !.p1 = r[1], !.p2 = r[2]],
              getMaxPerfect(seq, r[1], r[2]))

CallTopMaxPeriods ==
  /\ Idle
  /\ Len(seq) >= 1
  /\ \E r \in Ranges, n \in 1..MaxTop :
       /\ n <= r[2] - r[1] + 1
       /\ Return([NoCall EXCEPT !.fn = "getTopMaxPeriods",
                                !.p1 = r[1], !.p2 = r[2], !.n = n],
                 getTopMaxPeriods(seq, r[1], r[2], n))

CallTopMaxPerfects ==
  /\ Idle
  /\ Len(seq) >= 1
  /\ \E r \in Ranges, n \in 1..MaxTop :
       /\ n <= r[2] - r[1] + 1
       /\ Return([NoCall EXCEPT !.fn = "getTopMaxPerfects",
                                !.p1 = r[1], !.p2 = r[2], !.n = n],
                 getTopMaxPerfects(seq, r[1], r[2], n))

CallRepeatSeq ==
  /\ Idle
  /\ \E p \in Periods :
       Return([NoCall EXCEPT !.fn = "getRepeatSeq", !.p = p], getRepeatSeq(seq, p))

CallNDUWalkSeq ==
  /\ Idle
  /\ \E p \in Periods :
       Return([NoCall EXCEPT !.fn = "getNDUWalkSeq", !.p = p],
              Ok(getNDUWalkSeq(seq, p)))

CallNDUWindowSeq ==
  /\ Idle
  /\ \E p \in Periods, W \in Windows :
       /\ W # None => W[1] <= Len(seq)
       /\ Return([NoCall EXCEPT !.fn = "getNDUWindowSeq", !.p = p, !.opt = W],
                 Ok(getNDUWindowSeq(seq, p, W)))

CallConsensusOfMax ==
  /\ Idle
  /\ Len(seq) >= 1
  /\ Return([NoCall EXCEPT !.fn = "ConsensusOfMax"], ConsensusOfMax(seq))

Next ==
  \/ CallCongruenceMatrix
  \/ CallPerfectLevelSeq
  \/ CallNDUSeq
  \/ CallNDUSeqEquation
  \/ CallMaxPRSeq
  \/ CallMaxNDUSeq
  \/ CallNDURangeSeq
  \/ CallPRRangeSeq
  \/ CallMaxPerfect
  \/ CallTopMaxPeriods
  \/ CallTopMaxPerfects
  \/ CallRepeatSeq
  \/ CallNDUWalkSeq
  \/ CallNDUWindowSeq
  \/ CallConsensusOfMax

Spec == Init /\ [][Next]_vars

(***************************************************************************)
(* Exact repeats: the periodicity of the maximum NDU, the consensus        *)
(* pattern and the perfect level.                                          *)
(***************************************************************************)
InitRepeat ==
  /\ seq \in Repeats
  /\ call = NoCall
  /\ result = Ok(<<>>)

NextRepeat ==
  \/ CallMaxNDUSeq
  \/ CallPerfectLevelSeq
  \/ CallRepeatSeq
  \/ CallConsensusOfMax

SpecRepeat == InitRepeat /\ [][NextRepeat]_vars

(***************************************************************************)
(* What the properties speak of.                                           *)
(***************************************************************************)
Called(f) == call.fn = f

\* The positions (0-based) of residue class c modulo p.
Class(s, p, c) == {i \in 0..(Len(s) - 1) : i % p = c}

ColSum(M, c) == M[0][c] + M[1][c] + M[2][c] + M[3][c]

RECURSIVE TotalSum(_, _)
TotalSum(M, p) == IF p = 0 THEN 0 ELSE TotalSum(M, p - 1) + ColSum(M, p - 1)

\* Every residue class modulo p holds symbols of one row only.
Monochromatic(s, p) ==
  \A i, j \in 0..(Len(s) - 1) : i % p = j % p => Row(s[i + 1]) = Row(s[j + 1])

\* Every column of the matrix has at most one non-zero cell.
OneCellColumns(M, p) ==
  \A c \in 0..(p - 1) : Cardinality({r \in 0..3 : M[r][c] > 0}) <= 1

One == <<1, 1>>

PR(s, p) == getPerfectLevelSeq(s, p).val
NDU(s, p) == getNDUSeq(s, p).val

\* The scores of the periodicities p1..p2, in order.
ScoresNDU(s, p1, p2) == [k \in 1..(p2 - p1 + 1) |-> NDU(s, p1 + k - 1)]
ScoresPR(s, p1, p2) == [k \in 1..(p2 - p1 + 1) |-> PR(s, p1 + k - 1)]

IsMaxOf(x, scores) ==
  /\ \E k \in 1..Len(scores) : scores[k] = x
  /\ \A k \in 1..Len(scores) : RLeq(scores[k], x)

\* s is whole copies of its first d symbols.
IsRepeatOf(s, d) ==
  /\ Len(s) % d = 0
  /\ \A i \in 1..Len(s) : s[i] = s[((i - 1) % d) + 1]

\* The length of the unit of s that is no repeat of a shorter unit.
UnitLen(s) ==
  CHOOSE d \in 1..Len(s) :
    IsRepeatOf(s, d) /\ \A e \in 1..(d - 1) : ~IsRepeatOf(s, e)

\* s is k >= 2 copies of such a unit over G, C, A, T.
ExactRepeat(s) ==
  /\ Len(s) >= 2
  /\ \A i \in 1..Len(s) : s[i] \in Bases
  /\ 2 * UnitLen(s) <= Len(s)

Unit(s) == SubSeq(s, 1, UnitLen(s))

(***************************************************************************)
(* C1: for a non-empty sequence and 1 <= p1 <= p2, getMaxPerfect(seq, p1,  *)
(* p2) returns [period, score] with p1 <= period <= p2, score the maximum  *)
(* of the perfect levels of the periodicities p1..p2, and period the       *)
(* lowest periodicity of p1..p2 with that score.                           *)
(***************************************************************************)
C1_BestInRange ==
  Called("getMaxPerfect") =>
    /\ result.tag = "ok"
    /\ result.val.period \in call.p1..call.p2
    /\ IsMaxOf(result.val.score, ScoresPR(seq, call.p1, call.p2))
    /\ PR(seq, result.val.period) = result.val.score
    /\ \A q \in call.p1..(result.val.period - 1) :
         PR(seq, q) # result.val.score

(***************************************************************************)
(* C2: for a non-empty sequence and 1 <= p1 <= p2, getNDURangeSeq and      *)
(* getPRRangeSeq return exactly p2 - p1 + 1 scores, the k-th (from 0) the  *)
(* score of the sequence at periodicity p1 + k.                            *)
(***************************************************************************)
C2_ScanRange ==
  /\ Called("getNDURangeSeq") =>
       result.val = ScoresNDU(seq, call.p1, call.p2)
  /\ Called("getPRRangeSeq") =>
       result.val = ScoresPR(seq, call.p1, call.p2)

(***************************************************************************)
(* C3: for 1 <= n <= number of periodicities of p1..p2, getTopMaxPeriods   *)
(* and getTopMaxPerfects return exactly n periodicities whose scores are   *)
(* the n largest scores of the scan, in ascending order of score, and      *)
(* maxPeriod, the last of them, has the maximum score of the scan.         *)
(***************************************************************************)
TopN(scores, p1, n) ==
  LET m == Len(scores)
      asc == PySorted(scores)
  IN  /\ result.tag = "ok"
      /\ Len(result.val.maxPeriods) = n
      /\ \A j \in 1..n :
           LET q == result.val.maxPeriods[j]
           IN  /\ q - p1 + 1 \in 1..m
               /\ scores[q - p1 + 1] = asc[m - n + j]
      /\ result.val.maxPeriod = result.val.maxPeriods[n]
      /\ LET q == result.val.maxPeriod
         IN  q - p1 + 1 \in 1..m /\ IsMaxOf(scores[q - p1 + 1], scores)

C3_TopN ==
  /\ Called("getTopMaxPeriods") =>
       TopN(ScoresNDU(seq, call.p1, call.p2), call.p1, call.n)
  /\ Called("getTopMaxPerfects") =>
       TopN(ScoresPR(seq, call.p1, call.p2), call.p1, call.n)

(***************************************************************************)
(* C4: with no periodicity limit given, getMaxNDUSeq and getMaxPRSeq on a  *)
(* sequence of length n return [period, score] with                        *)
(* 2 <= period <= min(n div 2, 100), score the score of the sequence at    *)
(* period, and no periodicity of 2..min(n div 2, 100) with a larger score. *)
(* Stated for n >= 4, where that range holds a periodicity.                *)
(***************************************************************************)
BestOfAll(scores, hi) ==
  /\ result.tag = "ok"
  /\ result.val.period \in 2..hi
  /\ result.val.score = scores[result.val.period - 1]
  /\ IsMaxOf(result.val.score, scores)

C4_WholeSequenceSearch ==
  Len(seq) >= 4 =>
    LET hi == IF Len(seq) \div 2 > PeriodCap THEN PeriodCap ELSE Len(seq) \div 2
    IN  /\ (Called("getMaxNDUSeq") /\ call.opt = None) =>
             BestOfAll(ScoresNDU(seq, 2, hi), hi)
        /\ Called("getMaxPRSeq") => BestOfAll(ScoresPR(seq, 2, hi), hi)

(***************************************************************************)
(* C5, as claimed: for an exact repeat (k >= 2 copies) of a unit u over    *)
(* G, C, A, T that is no repeat of a shorter unit, the search for the      *)
(* periodicity of the maximum NDU returns the length of u, the consensus   *)
(* pattern at that periodicity is u and the perfect level there is 1.      *)
(***************************************************************************)
C5_SearchFindsUnit ==
  (Called("ConsensusOfMax") /\ ExactRepeat(seq)) =>
    /\ result.tag = "ok"
    /\ result.val.period = UnitLen(seq)
    /\ result.val.seqR = Unit(seq)
    /\ PR(seq, result.val.period) = One

\* The same for the repeats whose unit length p lies inside range(2, mp),
\* the periodicities getMaxNDUSeq scores: it fails there too (AAAT AAAT AAAT
\* has NDU 3 at periodicity 2 and 9/4 at periodicity 4).
C5_SearchFindsScannedUnit ==
  (Called("ConsensusOfMax") /\ ExactRepeat(seq)
     /\ UnitLen(seq) \in 2..(DefaultLimit(Len(seq)) - 1)) =>
    result.tag = "ok" /\ result.val.period = UnitLen(seq)

(***************************************************************************)
(* C5, amended: for such a repeat of a unit u of length p, getRepeatSeq at *)
(* p returns u, the perfect level at p is 1, and the perfect level at      *)
(* every periodicity below p is below 1.                                   *)
(***************************************************************************)
C5_UnitAtItsPeriod ==
  ExactRepeat(seq) =>
    /\ (Called("getRepeatSeq") /\ call.p = UnitLen(seq)) =>
         result = Ok(Unit(seq))
    /\ (Called("getPerfectLevelSeq") /\ call.p = UnitLen(seq)) =>
         result = Ok(One)
    /\ (Called("getPerfectLevelSeq") /\ call.p \in 1..(UnitLen(seq) - 1)) =>
         result.tag = "ok" /\ RLess(result.val, One)

C5_Witness ==
  /\ Called("getRepeatSeq")
  /\ ExactRepeat(seq)
  /\ Len(seq) = 12
  /\ UnitLen(seq) = 4
  /\ call.p = 4
  /\ result = Ok(<<"A", "A", "A", "T">>)

(***************************************************************************)
(* C6: for a sequence of length n >= 1 over any symbols and p >= 1, the    *)
(* cells of getCongruenceMatrix(seq, p) sum to n, the cells of column c    *)
(* sum to the number of positions i with i mod p = c (which is n/p rounded *)
(* down or up), and every symbol other than G, C, A is counted in row 3.   *)
(***************************************************************************)
C6_MatrixSums ==
  (Called("getCongruenceMatrix") /\ Len(seq) >= 1 /\ call.p >= 1) =>
    /\ result.tag = "ok"
    /\ DOMAIN result.val = 0..3
    /\ \A r \in 0..3 : DOMAIN result.val[r] = 0..(call.p - 1)
    /\ TotalSum(result.val, call.p) = Len(seq)
    /\ \A c \in 0..(call.p - 1) :
         /\ ColSum(result.val, c) = Cardinality(Class(seq, call.p, c))
         /\ ColSum(result.val, c) \in
              {Len(seq) \div call.p, (Len(seq) + call.p - 1) \div call.p}
         /\ result.val[3][c] =
              Cardinality({i \in Class(seq, call.p, c) :
                             seq[i + 1] \notin {"G", "C", "A"}})

C6_Witness ==
  /\ Called("getCongruenceMatrix")
  /\ seq = <<"T", "G", "N", "A">>
  /\ call.p = 2
  /\ result.tag = "ok"
  /\ result.val[3][0] = 2
  /\ ColSum(result.val, 1) = 2

(***************************************************************************)
(* C7: for a sequence of length n >= 1 and p >= 1, getPerfectLevelSeq      *)
(* returns PR with 0 < PR <= 1, and PR = 1 exactly when every residue      *)
(* class modulo p is monochromatic, that is when every column of the       *)
(* congruence matrix has at most one non-zero cell.                        *)
(***************************************************************************)
C7_PerfectLevel ==
  (Called("getPerfectLevelSeq") /\ Len(seq) >= 1 /\ call.p >= 1) =>
    /\ result.tag = "ok"
    /\ RLess(RInt(0), result.val)
    /\ RLeq(result.val, One)
    /\ result.val = One <=> Monochromatic(seq, call.p)
    /\ Monochromatic(seq, call.p) <=>
         OneCellColumns(getCongruenceMatrix(seq, call.p).val, call.p)

C7_Witness ==
  /\ Called("getPerfectLevelSeq")
  /\ seq = <<"G", "T", "G", "N">>
  /\ call.p = 2
  /\ result = Ok(One)

(***************************************************************************)
(* C8, as claimed: getCongruenceMatrix and the scores built on it fail     *)
(* with an error for a periodicity < 1 or greater than the length of the   *)
(* sequence, and for an empty sequence.                                    *)
(***************************************************************************)
ScoreCall ==
  \/ Called("getNDUSeq")
  \/ Called("getNDUSeqEquation")
  \/ Called("getPerfectLevelSeq")

C8_RejectsDegenerate ==
  ((Called("getCongruenceMatrix") \/ ScoreCall)
     /\ (call.p < 1 \/ call.p > Len(seq) \/ Len(seq) = 0)) =>
    result.tag = "raise"

(***************************************************************************)
(* C8, amended: getCongruenceMatrix fails exactly for a negative           *)
(* periodicity and for periodicity 0 on a non-empty sequence; for a        *)
(* periodicity above the length n of the sequence it returns a matrix      *)
(* whose columns n..p-1 are zero.  The scores fail exactly for a           *)
(* periodicity <= 0; for a periodicity >= 1 they return a number when the  *)
(* sequence is non-empty and not-a-number when it is empty.                *)
(***************************************************************************)
C8_RejectsOnlyBadPeriod ==
  /\ Called("getCongruenceMatrix") =>
       /\ result.tag = "raise" <=>
            (call.p < 0 \/ (call.p = 0 /\ Len(seq) >= 1))
       /\ (result.tag = "ok" /\ call.p > Len(seq)) =>
            \A c \in Len(seq)..(call.p - 1) : ColSum(result.val, c) = 0
  /\ ScoreCall =>
       /\ result.tag = "raise" <=> call.p <= 0
       /\ result.tag = "ok" => (IsNaN(result.val) <=> Len(seq) = 0)

C8_Witness ==
  /\ Called("getCongruenceMatrix")
  /\ seq = <<"G", "C">>
  /\ call.p = 4
  /\ result.tag = "ok"
  /\ ColSum(result.val, 2) = 0
  /\ ColSum(result.val, 3) = 0

(***************************************************************************)
(* C9: for a sequence of length n >= 1 and p >= 1, getNDUSeq and           *)
(* getNDUSeqEquation return the same value in exact arithmetic.            *)
(***************************************************************************)
C9_NDUFormsAgree ==
  (Len(seq) >= 1 /\ call.p >= 1) =>
    /\ Called("getNDUSeq") => result = getNDUSeqEquation(seq, call.p)
    /\ Called("getNDUSeqEquation") => result = getNDUSeq(seq, call.p)

C9_Witness ==
  /\ Called("getNDUSeqEquation")
  /\ seq = <<"G", "C", "G">>
  /\ call.p = 2
  /\ result = Ok(<<31, 24>>)

(***************************************************************************)
(* C10: for a sequence of length n, p >= 1 and a window size W with        *)
(* 1 <= W <= n (W = 5*p when not given), getNDUWindowSeq returns exactly   *)
(* n - W + 1 scores, the i-th (from 0) the NDU of seq[i : i+W] at p.       *)
(***************************************************************************)
C10_Windows ==
  Called("getNDUWindowSeq") =>
    LET W == IF call.opt = None THEN 5 * call.p ELSE call.opt[1]
    IN  (1 <= W /\ W <= Len(seq)) =>
          /\ result.tag = "ok"
          /\ Len(result.val) = Len(seq) - W + 1
          /\ \A i \in 0..(Len(seq) - W) :
               result.val[i + 1] = NDU(SubSeq(seq, i + 1, i + W), call.p)

C10_Witness ==
  /\ Called("getNDUWindowSeq")
  /\ call.opt = None
  /\ call.p = 2
  /\ Len(seq) = 20
  /\ Len(result.val) = 11

=============================================================================
